---- MODULE Spec2Model ----
(***************************************************************************)
(* Model of the trusty shopping-agent backend (core/views.py,              *)
(* core/services.py, core/serializers.py, core/models.py).                 *)
(*                                                                         *)
(* The durable store holds the agent rows and the transaction rows.  Each  *)
(* HTTP request is served by a handler that runs in a request slot; the    *)
(* handlers of different slots interleave at their database accesses.      *)
(* Writes made inside `with transaction.atomic()` are buffered in the slot *)
(* and become visible to the other slots when the block commits.           *)
(***************************************************************************)
EXTENDS Integers, Sequences, FiniteSets, TLC

(* ------------------------------ bounds -------------------------------- *)

\* request slots: the number of requests that can be in flight at once
MaxReq == 2
\* cap on the agent rows the store holds
MaxAgents == 1
\* cap on the committed transaction rows the store holds
MaxTx == 2

(* ------------------------- program constants -------------------------- *)

\* AgentInstance.trust_score default
DefaultTrustScore == 50
\* validators of AgentInstance.trust_score, and the clamp of update_score
MinScore == 0
MaxScore == 100
\* _get_default_constraints()['max_price']
DefaultMaxPrice == 500
\* the tolerance of _verify_price_reasonable, in percent
PriceTolerance == 15
\* the width of the mock transaction hash kept by the model, in bits
HashBits == 4
\* the width of the hexadecimal field of create_wallet's address
WalletDigits == 40
\* the largest whole number a DecimalField(max_digits=10, decimal_places=2)
\* takes
MaxDecimal == 99999999

(* ------------------------------ inputs -------------------------------- *)

Req == 1..MaxReq
Users == {"alice", "bob"}
\* the users who set agents up
Owners == {"alice"}
Merchants == {"Amazon", "Walmart"}
\* the default of AgentSetupView when the body names no merchants
DefaultMerchants == <<"Amazon", "BestBuy">>
\* allowed_merchants of a setup body: <<>> stands for "key absent"
MerchantBodies == {<<>>}
\* max_price values the translator answers with
TranslatedPrices == {2}
\* max_price values of the answers given to the setup handler alone: the
\* last has nine digits before the decimal point
SetupPrices == {-1, 0, 2, 1000, 100000000}
\* amounts of verify bodies; 3 exceeds the translated budget 2
Amounts == {2, 3}
Wallets == {"0x01"}
MerchantWallets == {"0x02"}
\* PYTHONHASHSEED of the server process that serves a request
HashSeeds == {0, 1}
\* User.id of the users wallets are created for (AutoField: positive)
UserIds == {1, 2, 255, 4096}

\* Optional values: None is <<>>, a present value v is <<v>>
None == <<>>
Some(v) == <<v>>
IsNone(o) == o = <<>>

(* ------------------------------- rows --------------------------------- *)

\* an agent object with no row behind it
NoAgent ==
    [id |-> 0, user |-> "", status |-> "", trust_score |-> 0,
     constraints |-> [max_price |-> 0, source |-> ""],
     max_budget |-> 0, allowed_merchants |-> <<>>,
     bridge_wallet_address |-> ""]

\* Transaction(...) as Transaction.objects.create builds it from validated
\* data: the model's field defaults fill what the caller does not give
NewTransaction(agent, amount, merchant, merchant_wallet, st) ==
    [agent_instance |-> agent.id, amount |-> amount, merchant |-> merchant,
     merchant_wallet |-> merchant_wallet, status |-> st,
     market_average_price |-> None, executed_at |-> None,
     transaction_hash |-> <<>>]

NoTransaction ==
    [agent_instance |-> 0, amount |-> 0, merchant |-> "",
     merchant_wallet |-> "", status |-> "",
     market_average_price |-> None, executed_at |-> None,
     transaction_hash |-> <<>>]

NoResponse ==
    [code |-> 0, status |-> "", transaction_hash |-> <<>>,
     reason |-> None, error |-> "", detail |-> "", task_id |-> None,
     errors |-> <<>>]

NoResult == [approved |-> FALSE, reason |-> None]

\* a free request slot
IdleReq ==
    [pc |-> "idle", op |-> "", user |-> "",
     body |-> [agent_instance |-> 0, amount |-> 0, merchant |-> "",
               merchant_wallet |-> ""],
     before |-> NoAgent, agent |-> NoAgent, tx |-> NoTransaction,
     rows |-> <<>>, agent_write |-> <<>>, needs_rollback |-> FALSE,
     result |-> NoResult, event |-> "", transfer |-> None,
     args |-> None, wallet |-> None,
     response |-> NoResponse]

VARIABLES
    agents,        \* the committed AgentInstance rows, by id
    transactions,  \* the committed Transaction rows, by id
    req            \* the request slots: handler position and locals

vars == <<agents, transactions, req>>

(* --------------------------- pure functions --------------------------- *)

Max(a, b) == IF a >= b THEN a ELSE b
Min(a, b) == IF a <= b THEN a ELSE b
Abs(a) == IF a < 0 THEN 0 - a ELSE a

\* mutant of InList: any non-empty list admits x
InListLoose(x, list) == list # <<>>

\* Python's `x in list`
InList(x, list) == \E i \in DOMAIN list : list[i] = x

\* mutant of score_impacts: the penalty of a failed transaction halved
score_impacts_small_penalty ==
    [SUCCESSFUL_TRANSACTION |-> 5, FAILED_TRANSACTION |-> -5,
     PRICE_SAVING |-> 2, SUSPICIOUS_ACTIVITY |-> -15]

\* TrustScoreService.update_score: the event -> delta table
score_impacts ==
    [SUCCESSFUL_TRANSACTION |-> 5, FAILED_TRANSACTION |-> -10,
     PRICE_SAVING |-> 2, SUSPICIOUS_ACTIVITY |-> -15]

\* event kinds passed to update_score; the last one is not in the table
EventKinds == DOMAIN score_impacts \cup {"REFUND"}

\* mutant of new_score: the upper clamp only
new_score_no_floor(score, impact) == Min(MaxScore, score + impact)

\* max(0, min(100, agent.trust_score + impact))
new_score(score, impact) == Max(MinScore, Min(MaxScore, score + impact))

\* mutant of update_score: the new score is computed and never saved
update_score_unsaved(agent, event_type) ==
    IF event_type \in DOMAIN score_impacts
    THEN [agent |-> [agent EXCEPT !.trust_score =
                        new_score(@, score_impacts[event_type])],
          saves |-> FALSE]
    ELSE [agent |-> agent, saves |-> FALSE]

\* TrustScoreService.update_score, up to its agent.save(): the agent object
\* after the call, and whether the call saves it
update_score(agent, event_type) ==
    IF event_type \in DOMAIN score_impacts
    THEN [agent |-> [agent EXCEPT !.trust_score =
                        new_score(@, score_impacts[event_type])],
          saves |-> TRUE]
    ELSE [agent |-> agent, saves |-> FALSE]

\* mutant of verify_price_reasonable: the tolerance is exclusive
verify_price_reasonable_strict(transaction) ==
    IF ~IsNone(transaction.market_average_price)
       /\ transaction.market_average_price[1] # 0
    THEN LET m == transaction.market_average_price[1]
         IN  Abs(transaction.amount - m) * 100 < PriceTolerance * Abs(m)
    ELSE TRUE

\* ShoppingService._verify_price_reasonable: a falsy market_average_price
\* (None or 0) passes; otherwise abs((amount - m) / m * 100) <= 15
verify_price_reasonable(transaction) ==
    IF ~IsNone(transaction.market_average_price)
       /\ transaction.market_average_price[1] # 0
    THEN LET m == transaction.market_average_price[1]
         IN  Abs(transaction.amount - m) * 100 <= PriceTolerance * Abs(m)
    ELSE TRUE

\* the checks dict of verify_transaction, in its insertion order
CheckNames == <<"budget_check", "merchant_check", "price_check">>

\* mutant of checks: the price check always passes
checks_no_price(transaction, agent) ==
    [budget_check |-> transaction.amount <= agent.max_budget,
     merchant_check |-> InList(transaction.merchant, agent.allowed_merchants),
     price_check |-> TRUE]

checks(transaction, agent) ==
    [budget_check |-> transaction.amount <= agent.max_budget,
     merchant_check |-> InList(transaction.merchant, agent.allowed_merchants),
     price_check |-> verify_price_reasonable(transaction)]

\* [k for k, v in checks.items() if not v]
failed_checks(c) == SelectSeq(CheckNames, LAMBDA k : ~c[k])

\* ShoppingService.verify_transaction.  save_ok says whether
\* transaction.save() succeeds; when it raises, the except branch answers
\* approved False with a "Verification error" reason.  A transaction whose
\* amount is missing (the record has no amount) raises a TypeError in the
\* budget check, before the status is set, and the same except branch
\* answers.  The result holds the transaction object after the call, whether
\* its row was written, the exception the except branch caught, and the
\* returned dict.
verify_transaction(transaction, agent, save_ok) ==
    IF "amount" \notin DOMAIN transaction
    THEN [tx |-> transaction, saved |-> FALSE, raised |-> "TypeError",
          result |-> [approved |-> FALSE,
                      reason |-> <<"Verification error">>]]
    ELSE
    LET c == checks(transaction, agent)
        approved == c.budget_check /\ c.merchant_check /\ c.price_check
        t == [transaction EXCEPT
                 !.status = IF approved THEN "APPROVED" ELSE "REJECTED"]
    IN  IF save_ok
        THEN [tx |-> t, saved |-> TRUE, raised |-> "",
              result |-> [approved |-> approved,
                          reason |-> IF approved THEN None
                                     ELSE <<"Failed checks", failed_checks(c)>>]]
        ELSE [tx |-> t, saved |-> FALSE, raised |-> "DatabaseError",
              result |-> [approved |-> FALSE,
                          reason |-> <<"Verification error">>]]

\* the hexadecimal digits of a non-negative n, most significant first
RECURSIVE HexDigits(_)
HexDigits(n) == IF n < 16 THEN <<n>> ELSE HexDigits(n \div 16) \o <<n % 16>>

\* format(n, '0{width}x') of a non-negative n: the digits, padded with
\* zeros on the left up to width; more digits than width are all kept
FormatZeroPaddedHex(n, width) ==
    LET digits == HexDigits(n)
    IN  IF Len(digits) >= width THEN digits
        ELSE [i \in 1..(width - Len(digits)) |-> 0] \o digits

\* mutant of create_wallet: the digits are not padded
create_wallet_unpadded(user_id) == <<"0x", HexDigits(user_id)>>

\* MockBridgeWalletService.create_wallet: f"0x{user.id:040x}", as the
\* prefix and the sequence of hexadecimal digits
create_wallet(user_id) == <<"0x", FormatZeroPaddedHex(user_id, WalletDigits)>>

\* a number standing for the characters of a wallet string
StrCode(w) == CASE w = "0x01" -> 1 [] w = "0x02" -> 2 [] OTHER -> 0

\* Python's hash() of the str f'{from_wallet}{to_wallet}{amount}': salted
\* by the process's hash seed, and signed
PyHash(seed, from_wallet, to_wallet, amount) ==
    ((seed * 5 + StrCode(from_wallet) * 3 + StrCode(to_wallet) * 7 + amount * 11)
        % (2 ^ HashBits)) - 2 ^ (HashBits - 1)

\* format(n, '064x'): a minus sign for a negative n, then the digits
Format064x(n) == <<IF n < 0 THEN "-" ELSE "", Abs(n)>>

\* mutant of execute_transfer: no hash comes back
execute_transfer_blank(seed, from_wallet, to_wallet, amount) == <<>>

\* MockBridgeWalletService.execute_transfer
execute_transfer(seed, from_wallet, to_wallet, amount) ==
    <<"0x">> \o Format064x(PyHash(seed, from_wallet, to_wallet, amount))

\* mutant of validate: every body is accepted
validate_nothing(agent_instance, data) == ""

\* TransactionSerializer.validate: the message of the ValidationError it
\* raises, or "" when the data pass
validate(agent_instance, data) ==
    IF data.amount > agent_instance.max_budget
    THEN "Transaction amount exceeds agent's maximum budget"
    ELSE IF ~InList(data.merchant, agent_instance.allowed_merchants)
    THEN "Merchant not in allowed merchants list"
    ELSE ""

\* PromptProcessingService._get_default_constraints
default_constraints ==
    [max_price |-> DefaultMaxPrice, categories |-> <<"general">>,
     preferences |-> [brand |-> "any", condition |-> "new",
                      shipping |-> "standard"],
     _source |-> "default"]

\* mutant of process_shopping_prompt: a failed call hands back an empty
\* dict
process_shopping_prompt_empty(outcome) ==
    IF outcome.kind = "json" THEN outcome.value ELSE <<>>

\* PromptProcessingService.process_shopping_prompt.  outcome is what the
\* translator does: the call raises ("raise"), its content is not JSON and
\* json.loads raises ("malformed"), or json.loads returns a dict ("json",
\* with the dict as value).  The dict is returned as it is; the except
\* branch returns the default constraints.
process_shopping_prompt(outcome) ==
    IF outcome.kind = "json" THEN outcome.value ELSE default_constraints

\* a complete answer of the translator: the three keys the system prompt
\* asks for
Answer(max_price) ==
    [max_price |-> max_price, categories |-> <<"electronics">>,
     preferences |-> [brand |-> "trusted", condition |-> "new",
                      shipping |-> "standard"]]

\* the dict d without the key k
Without(d, k) == [j \in DOMAIN d \ {k} |-> d[j]]

\* the translator fails, or answers completely
TranslatorOutcomes ==
    {[kind |-> "raise", value |-> <<>>]}
        \cup {[kind |-> "json", value |-> Answer(p)] : p \in TranslatedPrices}

\* what the translator does for the setup handler alone: it fails in
\* either way, answers completely, or answers with a JSON object that
\* lacks one of the keys, or all of them
SetupOutcomes ==
    {[kind |-> k, value |-> <<>>] : k \in {"raise", "malformed"}}
        \cup {[kind |-> "json", value |-> Answer(p)] : p \in SetupPrices}
        \cup {[kind |-> "json", value |-> Without(Answer(2), k)] :
                 k \in {"max_price", "categories", "preferences"}}
        \cup {[kind |-> "json", value |-> <<>>]}

(* ------------------------------ helpers -------------------------------- *)

\* a slot with no request in it
Free(r) == req[r].pc = "idle"

\* requests that hold an open atomic block with a transaction row in it
InAtomic(r) == req[r].op = "verify" /\ req[r].pc \notin {"idle", "done"}

\* the Response a handler returns, by its HTTP status code
Respond(code, fields) ==
    [f \in DOMAIN NoResponse |->
        IF f = "code" THEN code
        ELSE IF f \in DOMAIN fields THEN fields[f] ELSE NoResponse[f]]

\* the handler of slot r ends and its Response goes out
Finish(r, resp) ==
    req' = [req EXCEPT ![r].pc = "done", ![r].response = resp]

\* the except branch of TransactionVerificationView.post: leaving the
\* atomic block by an exception rolls its writes back, the handler
\* answers 500
RolledBack(r, obj, detail) ==
    [req EXCEPT ![r].pc = "done", ![r].tx = obj,
        ![r].rows = <<>>, ![r].agent_write = <<>>,
        ![r].response = Respond(500, [error |-> "Verification failed",
                                      detail |-> detail])]

(* ------------------------------- Init ---------------------------------- *)

\* An agent row as the test fixtures create it (AgentInstance.objects
\* .create, then agent.trust_score = s; agent.save()).
Fixture(score) ==
    [id |-> 1, user |-> "alice", status |-> "IDLE", trust_score |-> score,
     constraints |-> Answer(2),
     max_budget |-> 2, allowed_merchants |-> DefaultMerchants,
     bridge_wallet_address |-> "0x01"]

\* trust scores of an agent with a history of executed transactions
\* (50 + 5k, clamped); the rows of that history are not kept
AgedScores == {95, 100}

\* The store is empty, or holds one agent with a history.
Init ==
    /\ agents \in {<<>>} \cup {<<Fixture(s)>> : s \in AgedScores}
    /\ transactions = <<>>
    /\ req = [r \in Req |-> IdleReq]

(* --------------------------- POST agents/setup ------------------------- *)

\* mutant of NewAgent: the trust score starts at 0
NewAgentScoreZero(id, user, data) ==
    [id |-> id, user |-> user, status |-> "IDLE",
     trust_score |-> 0,
     constraints |-> data.constraints, max_budget |-> data.max_budget,
     allowed_merchants |-> data.allowed_merchants,
     bridge_wallet_address |-> data.bridge_wallet_address[1]]

\* the agent row AgentInstanceSerializer.save(user=...) inserts: status and
\* trust_score are read-only fields, so the model defaults fill them
NewAgent(id, user, data) ==
    [id |-> id, user |-> user, status |-> "IDLE",
     trust_score |-> DefaultTrustScore,
     constraints |-> data.constraints, max_budget |-> data.max_budget,
     allowed_merchants |-> data.allowed_merchants,
     bridge_wallet_address |-> data.bridge_wallet_address[1]]

\* mutant of setup_data: the budget is the default max_price
setup_data_default_budget(body, constraints) ==
    [constraints |-> constraints,
     max_budget |-> DefaultMaxPrice,
     allowed_merchants |-> IF IsNone(body.allowed_merchants)
                           THEN DefaultMerchants
                           ELSE body.allowed_merchants[1],
     bridge_wallet_address |-> body.bridge_wallet_address]

\* the data dict AgentSetupView.post hands to the serializer; the keys
\* status and trust_score of the body are not copied.  constraints has the
\* key max_price.
setup_data(body, constraints) ==
    [constraints |-> constraints,
     max_budget |-> constraints.max_price,
     allowed_merchants |-> IF IsNone(body.allowed_merchants)
                           THEN DefaultMerchants
                           ELSE body.allowed_merchants[1],
     bridge_wallet_address |-> body.bridge_wallet_address]

\* AgentInstanceSerializer.is_valid: the fields with errors, in field
\* order.  constraints needs the three required keys; max_budget has to fit
\* the DecimalField and be greater than 0; bridge_wallet_address may be
\* blank and may not be null.  The template is taken to exist.
serializer_errors(data) ==
    LET fails ==
            [constraints |->
                 ~({"max_price", "categories", "preferences"}
                       \subseteq DOMAIN data.constraints),
             max_budget |->
                 \/ data.max_budget > MaxDecimal
                 \/ data.max_budget < 0 - MaxDecimal
                 \/ data.max_budget <= 0,
             bridge_wallet_address |-> IsNone(data.bridge_wallet_address)]
    IN  SelectSeq(<<"constraints", "max_budget", "bridge_wallet_address">>,
                  LAMBDA f : fails[f])

\* AgentSetupView.post.  The slot keeps the body and, when the translator
\* was called, what the translator did and the constraints
\* process_shopping_prompt returned.
Setup(r, u, body, outcome, save_ok) ==
    /\ Free(r)
    /\ Len(agents) < MaxAgents
    /\ LET constraints == process_shopping_prompt(outcome)
           slot == [IdleReq EXCEPT !.op = "setup", !.user = u, !.pc = "done",
                       !.args = Some([body |-> body, translator |-> "",
                                      constraints |-> None])]
           called == [slot EXCEPT !.args =
                         Some([body |-> body, translator |-> outcome.kind,
                               constraints |-> Some(constraints)])]
       IN  IF ~body.prompt
           THEN /\ req' = [req EXCEPT ![r] = [slot EXCEPT !.response =
                       Respond(400, [error |-> "Setup failed",
                                     detail |-> "Shopping prompt is required"])]]
                /\ UNCHANGED <<agents, transactions>>
           ELSE IF "max_price" \notin DOMAIN constraints
           THEN /\ req' = [req EXCEPT ![r] = [called EXCEPT !.response =
                       Respond(400, [error |-> "Setup failed",
                                     detail |-> "'max_price'"])]]
                /\ UNCHANGED <<agents, transactions>>
           ELSE LET data == setup_data(body, constraints)
                    agent == NewAgent(Len(agents) + 1, u, data)
                IN  IF serializer_errors(data) # <<>>
                    THEN /\ req' = [req EXCEPT ![r] = [called EXCEPT !.response =
                                Respond(400, [errors |-> serializer_errors(data)])]]
                         /\ UNCHANGED <<agents, transactions>>
                    ELSE IF ~save_ok
                    THEN /\ req' = [req EXCEPT ![r] = [called EXCEPT !.response =
                                Respond(400, [error |-> "Setup failed",
                                              detail |-> "database error"])]]
                         /\ UNCHANGED <<agents, transactions>>
                    ELSE /\ agents' = Append(agents, agent)
                         /\ req' = [req EXCEPT ![r] = [called EXCEPT
                                !.agent = agent,
                                !.response = Respond(201, [status |-> agent.status])]]
                         /\ UNCHANGED transactions

\* the bodies of setup requests: the wallet address is given
SetupBodies ==
    [prompt : BOOLEAN, allowed_merchants : MerchantBodies,
     bridge_wallet_address : {Some(w) : w \in Wallets},
     status : {None}, trust_score : {None}]

(* ------------------------ POST agents/<id>/shop ------------------------ *)

\* mutant of ShopLoad: the status test is left out
ShopLoadAnyStatus(r, u, agent_id) ==
    /\ Free(r)
    /\ LET slot == [IdleReq EXCEPT !.op = "shop", !.user = u,
                       !.body.agent_instance = agent_id]
       IN  IF agent_id \notin DOMAIN agents \/ agents[agent_id].user # u
           THEN req' = [req EXCEPT ![r] = [slot EXCEPT !.pc = "done",
                    !.response = Respond(404, [detail |-> "Not found."])]]
           ELSE req' = [req EXCEPT ![r] = [slot EXCEPT !.pc = "start",
                    !.before = agents[agent_id], !.agent = agents[agent_id]]]
    /\ UNCHANGED <<agents, transactions>>

\* AgentShoppingView.post up to its status test: get_object_or_404 on
\* (id, user), then the IDLE test
ShopLoad(r, u, agent_id) ==
    /\ Free(r)
    /\ LET slot == [IdleReq EXCEPT !.op = "shop", !.user = u,
                       !.body.agent_instance = agent_id]
       IN  IF agent_id \notin DOMAIN agents \/ agents[agent_id].user # u
           THEN req' = [req EXCEPT ![r] = [slot EXCEPT !.pc = "done",
                    !.response = Respond(404, [detail |-> "Not found."])]]
           ELSE IF agents[agent_id].status # "IDLE"
           THEN req' = [req EXCEPT ![r] = [slot EXCEPT !.pc = "done",
                    !.before = agents[agent_id], !.agent = agents[agent_id],
                    !.response = Respond(400,
                        [error |-> "Agent is already processing a task"])]]
           ELSE req' = [req EXCEPT ![r] = [slot EXCEPT !.pc = "start",
                    !.before = agents[agent_id], !.agent = agents[agent_id]]]
    /\ UNCHANGED <<agents, transactions>>

\* f"task_{agent.id}_{agent.user.id}"
TaskId(agent) == <<"task", agent.id, agent.user>>

\* mutant of ShopStart: the status is set on the object and never saved
ShopStartUnsaved(r, save_ok, user_ok) ==
    /\ req[r].op = "shop" /\ req[r].pc = "start"
    /\ LET agent == [req[r].agent EXCEPT !.status = "SHOPPING"]
       IN  /\ agents' = agents
           /\ IF save_ok /\ user_ok
              THEN req' = [req EXCEPT ![r].agent = agent, ![r].pc = "done",
                       ![r].response = Respond(202,
                           [task_id |-> Some(TaskId(agent)),
                            status |-> "SHOPPING"])]
              ELSE req' = [req EXCEPT ![r].agent = agent, ![r].pc = "error"]
    /\ UNCHANGED transactions

\* ShoppingService.start_shopping_task, the try branch: the status is set
\* and the whole agent object saved; then the task id is built, which loads
\* agent.user.  save_ok and user_ok say whether the save and the load
\* succeed.
ShopStart(r, save_ok, user_ok) ==
    /\ req[r].op = "shop" /\ req[r].pc = "start"
    /\ LET agent == [req[r].agent EXCEPT !.status = "SHOPPING"]
       IN  /\ agents' = IF save_ok THEN [agents EXCEPT ![agent.id] = agent]
                        ELSE agents
           /\ IF save_ok /\ user_ok
              THEN req' = [req EXCEPT ![r].agent = agent, ![r].pc = "done",
                       ![r].response = Respond(202,
                           [task_id |-> Some(TaskId(agent)),
                            status |-> "SHOPPING"])]
              ELSE req' = [req EXCEPT ![r].agent = agent, ![r].pc = "error"]
    /\ UNCHANGED transactions

\* mutant of ShopError: the except branch saves the agent object without
\* setting its status
ShopErrorKeepsStatus(r, save_ok) ==
    /\ req[r].op = "shop" /\ req[r].pc = "error"
    /\ LET agent == req[r].agent
       IN  /\ agents' = IF save_ok THEN [agents EXCEPT ![agent.id] = agent]
                        ELSE agents
           /\ req' = [req EXCEPT ![r].agent = agent, ![r].pc = "done",
                  ![r].response = Respond(500,
                      [error |-> "Shopping task failed"])]
    /\ UNCHANGED transactions

\* start_shopping_task, the except branch: the status ERROR is saved and
\* the exception raised again; the view answers 500.  When this save
\* raises too, its exception reaches the view instead.
ShopError(r, save_ok) ==
    /\ req[r].op = "shop" /\ req[r].pc = "error"
    /\ LET agent == [req[r].agent EXCEPT !.status = "ERROR"]
       IN  /\ agents' = IF save_ok THEN [agents EXCEPT ![agent.id] = agent]
                        ELSE agents
           /\ req' = [req EXCEPT ![r].agent = agent, ![r].pc = "done",
                  ![r].response = Respond(500,
                      [error |-> "Shopping task failed"])]
    /\ UNCHANGED transactions

(* ---------------------- POST transactions/verify ----------------------- *)

VerifyBodies ==
    [agent_instance : 1..MaxAgents, amount : Amounts, merchant : Merchants,
     merchant_wallet : MerchantWallets]

\* mutant of VerifyValidate: the ownership test is left out
VerifyValidateAnyUser(r, u, body) ==
    /\ Free(r)
    /\ Len(transactions) + Cardinality({q \in Req : InAtomic(q)}) < MaxTx
    /\ LET slot == [IdleReq EXCEPT !.op = "verify", !.user = u, !.body = body]
           fail(agent, detail) ==
               [slot EXCEPT !.pc = "done", !.before = agent, !.agent = agent,
                   !.response = Respond(500, [error |-> "Verification failed",
                                              detail |-> detail])]
       IN  IF body.agent_instance \notin DOMAIN agents
           THEN req' = [req EXCEPT ![r] = fail(NoAgent, "Invalid pk")]
           ELSE LET agent == agents[body.agent_instance]
                    message == validate(agent, body)
                IN  IF message # ""
                    THEN req' = [req EXCEPT ![r] = fail(agent, message)]
                    ELSE req' = [req EXCEPT ![r] = [slot EXCEPT
                             !.pc = "create", !.before = agent,
                             !.agent = agent]]
    /\ UNCHANGED <<agents, transactions>>

\* TransactionVerificationView.post up to the atomic block:
\* serializer.is_valid(raise_exception=True) loads the agent row and runs
\* TransactionSerializer.validate; then the ownership test.  Each failure
\* raises a ValidationError, which the handler's `except Exception`
\* answers with 500.
VerifyValidate(r, u, body) ==
    /\ Free(r)
    /\ Len(transactions) + Cardinality({q \in Req : InAtomic(q)}) < MaxTx
    /\ LET slot == [IdleReq EXCEPT !.op = "verify", !.user = u, !.body = body]
           fail(agent, detail) ==
               [slot EXCEPT !.pc = "done", !.before = agent, !.agent = agent,
                   !.response = Respond(500, [error |-> "Verification failed",
                                              detail |-> detail])]
       IN  IF body.agent_instance \notin DOMAIN agents
           THEN req' = [req EXCEPT ![r] = fail(NoAgent, "Invalid pk")]
           ELSE LET agent == agents[body.agent_instance]
                    message == validate(agent, body)
                IN  IF message # ""
                    THEN req' = [req EXCEPT ![r] = fail(agent, message)]
                    ELSE IF agent.user # u
                    THEN req' = [req EXCEPT ![r] =
                             fail(agent, "Not authorized for this agent")]
                    ELSE req' = [req EXCEPT ![r] = [slot EXCEPT
                             !.pc = "create", !.before = agent,
                             !.agent = agent]]
    /\ UNCHANGED <<agents, transactions>>

\* transaction_obj = serializer.save(status='VERIFYING'), the first
\* statement of the atomic block
VerifyCreate(r, save_ok) ==
    /\ req[r].op = "verify" /\ req[r].pc = "create"
    /\ LET b == req[r].body
           obj == NewTransaction(req[r].agent, b.amount, b.merchant,
                                 b.merchant_wallet, "VERIFYING")
       IN  IF save_ok
           THEN req' = [req EXCEPT ![r].pc = "verify", ![r].tx = obj,
                           ![r].rows = <<obj>>]
           ELSE req' = RolledBack(r, NoTransaction, "database error")
    /\ UNCHANGED <<agents, transactions>>

\* mutant of VerifyTransaction: the approved branch is taken whatever the
\* result says
VerifyTransactionAlwaysExecute(r, save_ok) ==
    /\ req[r].op = "verify" /\ req[r].pc = "verify"
    /\ LET v == verify_transaction(req[r].tx, req[r].agent, save_ok)
       IN  req' = [req EXCEPT
                      ![r].pc = "execute",
                      ![r].tx = v.tx,
                      ![r].rows = IF v.saved THEN <<v.tx>> ELSE @,
                      ![r].needs_rollback = v.raised = "DatabaseError",
                      ![r].result = v.result]
    /\ UNCHANGED <<agents, transactions>>

\* verification_result = shopping_service.verify_transaction(transaction_obj);
\* transaction_obj.agent_instance is the agent object the serializer loaded.
\* A save that raises inside the atomic block marks the block for rollback.
VerifyTransaction(r, save_ok) ==
    /\ req[r].op = "verify" /\ req[r].pc = "verify"
    /\ LET v == verify_transaction(req[r].tx, req[r].agent, save_ok)
       IN  req' = [req EXCEPT
                      ![r].pc = IF v.result.approved THEN "execute" ELSE "reject",
                      ![r].tx = v.tx,
                      ![r].rows = IF v.saved THEN <<v.tx>> ELSE @,
                      ![r].needs_rollback = v.raised = "DatabaseError",
                      ![r].result = v.result]
    /\ UNCHANGED <<agents, transactions>>

\* the approved branch up to transaction_obj.save(): the mock transfer, then
\* status and hash are set and the row saved
VerifyExecute(r, seed, save_ok) ==
    /\ req[r].op = "verify" /\ req[r].pc = "execute"
    /\ LET tx_hash == execute_transfer(seed, req[r].agent.bridge_wallet_address,
                                       req[r].tx.merchant_wallet, req[r].tx.amount)
           obj == [req[r].tx EXCEPT !.status = "EXECUTED",
                                    !.transaction_hash = tx_hash]
       IN  IF save_ok
           THEN req' = [req EXCEPT ![r].pc = "score", ![r].tx = obj,
                           ![r].rows = <<obj>>, ![r].transfer = Some(tx_hash)]
           ELSE req' = [RolledBack(r, obj, "database error")
                            EXCEPT ![r].transfer = Some(tx_hash)]
    /\ UNCHANGED <<agents, transactions>>

\* mutant of VerifyUpdateScore: the agent is saved outside the atomic
\* block, so the write is committed at once
VerifyUpdateScoreAutocommit(r, save_ok) ==
    /\ req[r].op = "verify" /\ req[r].pc = "score"
    /\ LET u == update_score(req[r].agent, "SUCCESSFUL_TRANSACTION")
       IN  /\ req' = [req EXCEPT ![r].pc = "commit", ![r].agent = u.agent,
                         ![r].event = "SUCCESSFUL_TRANSACTION",
                         ![r].response = Respond(200,
                             [status |-> "EXECUTED",
                              transaction_hash |-> req[r].transfer[1]])]
           /\ agents' = [agents EXCEPT ![u.agent.id] = u.agent]
    /\ UNCHANGED transactions

\* trust_service.update_score(agent, 'SUCCESSFUL_TRANSACTION'): the agent
\* object the serializer loaded gets its new score and is saved whole
VerifyUpdateScore(r, save_ok) ==
    /\ req[r].op = "verify" /\ req[r].pc = "score"
    /\ LET u == update_score(req[r].agent, "SUCCESSFUL_TRANSACTION")
       IN  IF u.saves /\ ~save_ok
           THEN req' = [RolledBack(r, req[r].tx, "database error")
                            EXCEPT ![r].agent = u.agent]
           ELSE req' = [req EXCEPT ![r].pc = "commit", ![r].agent = u.agent,
                           ![r].event = "SUCCESSFUL_TRANSACTION",
                           ![r].agent_write = IF u.saves THEN <<u.agent>> ELSE @,
                           ![r].response = Respond(200,
                               [status |-> "EXECUTED",
                                transaction_hash |-> req[r].transfer[1]])]
    /\ UNCHANGED <<agents, transactions>>

\* the else branch: the status REJECTED is set and the row saved.  In a
\* block marked for rollback the save raises (no query runs until the
\* block ends).
VerifyReject(r, save_ok) ==
    /\ req[r].op = "verify" /\ req[r].pc = "reject"
    /\ LET obj == [req[r].tx EXCEPT !.status = "REJECTED"]
       IN  IF req[r].needs_rollback \/ ~save_ok
           THEN req' = RolledBack(r, obj, "database error")
           ELSE req' = [req EXCEPT ![r].pc = "commit", ![r].tx = obj,
                           ![r].rows = <<obj>>,
                           ![r].response = Respond(400,
                               [status |-> "REJECTED",
                                reason |-> req[r].result.reason])]
    /\ UNCHANGED <<agents, transactions>>

\* `return Response(...)` leaves the atomic block: its writes are committed
\* together, or, when the commit raises, rolled back and answered with 500
VerifyCommit(r, commit_ok) ==
    /\ req[r].op = "verify" /\ req[r].pc = "commit"
    /\ IF commit_ok
       THEN /\ transactions' = transactions \o req[r].rows
            /\ agents' = IF req[r].agent_write = <<>> THEN agents
                         ELSE [agents EXCEPT ![req[r].agent_write[1].id] =
                                  req[r].agent_write[1]]
            /\ req' = [req EXCEPT ![r].pc = "done"]
       ELSE /\ req' = RolledBack(r, req[r].tx, "database error")
            /\ UNCHANGED <<agents, transactions>>

\* the Response has gone out: the slot takes the next request
Return(r) ==
    /\ req[r].pc = "done"
    /\ req' = [req EXCEPT ![r] = IdleReq]
    /\ UNCHANGED <<agents, transactions>>

(* -------------------------- the specification -------------------------- *)

Next ==
    \/ \E r \in Req, u \in Owners, body \in SetupBodies,
          outcome \in TranslatorOutcomes, save_ok \in BOOLEAN :
            Setup(r, u, body, outcome, save_ok)
    \/ \E r \in Req, u \in Users, agent_id \in 1..MaxAgents :
            ShopLoad(r, u, agent_id)
    \/ \E r \in Req, save_ok \in BOOLEAN, user_ok \in BOOLEAN :
            ShopStart(r, save_ok, user_ok)
    \/ \E r \in Req, save_ok \in BOOLEAN : ShopError(r, save_ok)
    \/ \E r \in Req, u \in Users, body \in VerifyBodies :
            VerifyValidate(r, u, body)
    \/ \E r \in Req, save_ok \in BOOLEAN : VerifyCreate(r, save_ok)
    \/ \E r \in Req, save_ok \in BOOLEAN : VerifyTransaction(r, save_ok)
    \/ \E r \in Req, seed \in HashSeeds, save_ok \in BOOLEAN :
            VerifyExecute(r, seed, save_ok)
    \/ \E r \in Req, save_ok \in BOOLEAN : VerifyUpdateScore(r, save_ok)
    \/ \E r \in Req, save_ok \in BOOLEAN : VerifyReject(r, save_ok)
    \/ \E r \in Req, commit_ok \in BOOLEAN : VerifyCommit(r, commit_ok)
    \/ \E r \in Req : Return(r)

Spec == Init /\ [][Next]_vars

(* ----------------- TrustScoreService.update_score alone ---------------- *)

\* The store holds one agent whose score is any value the validators of
\* AgentInstance.trust_score admit.
LedgerInit ==
    /\ agents \in {<<Fixture(s)>> : s \in MinScore..MaxScore}
    /\ transactions = <<>>
    /\ req = [r \in Req |-> IdleReq]

\* One call update_score(agent, event_type) on a freshly loaded agent
\* object, as the service tests make it.  save_ok says whether agent.save()
\* succeeds; when it raises, the exception leaves update_score.
ScoreCall(r, agent_id, event_type, save_ok) ==
    /\ Free(r)
    /\ agent_id \in DOMAIN agents
    /\ LET u == update_score(agents[agent_id], event_type)
           slot == [IdleReq EXCEPT !.op = "update_score", !.pc = "done",
                       !.event = event_type, !.before = agents[agent_id],
                       !.agent = u.agent]
       IN  IF u.saves /\ ~save_ok
           THEN /\ req' = [req EXCEPT ![r] =
                       [slot EXCEPT !.response.error = "raised"]]
                /\ UNCHANGED agents
           ELSE /\ req' = [req EXCEPT ![r] = slot]
                /\ agents' = IF u.saves
                             THEN [agents EXCEPT ![agent_id] = u.agent]
                             ELSE agents
    /\ UNCHANGED transactions

LedgerNext ==
    \/ \E event_type \in EventKinds, save_ok \in BOOLEAN :
            ScoreCall(1, 1, event_type, save_ok)
    \/ Return(1)

SpecLedger == LedgerInit /\ [][LedgerNext]_vars

(* --------------- ShoppingService.verify_transaction alone -------------- *)

\* Transaction.amount of the rows the verifier is given: around the
\* budget 2, and the amounts 15%, 8.3% and 16.7% below the market price 180
VerifierAmounts == {1, 2, 3, 150, 153, 165}
\* Transaction.market_average_price: absent, zero, or a price
VerifierPrices == {None, Some(0), Some(2), Some(3), Some(180)}
\* AgentInstance.max_budget: the budget of Fixture and the budget of the
\* service tests
VerifierBudgets == {2, 1000}
\* Transaction.merchant; "amazon" differs from "Amazon" by case only
VerifierMerchants == {"Amazon", "amazon", "Walmart"}
\* AgentInstance.allowed_merchants
VerifierAllowed == {DefaultMerchants, <<"Walmart">>, <<>>}

\* The store holds one agent and one transaction row of that agent, created
\* with Transaction.objects.create as the service tests do: the status is
\* the model default PENDING and market_average_price is given or left null.
VerifierInit ==
    /\ agents \in {<<[Fixture(DefaultTrustScore) EXCEPT !.allowed_merchants = m,
                                                        !.max_budget = b]>> :
                      m \in VerifierAllowed, b \in VerifierBudgets}
    /\ transactions \in
           {<<[NewTransaction(Fixture(DefaultTrustScore), amount, merchant,
                              "0x02", "PENDING")
                   EXCEPT !.market_average_price = price]>> :
               amount \in VerifierAmounts, merchant \in VerifierMerchants,
               price \in VerifierPrices}
    /\ req = [r \in Req |-> IdleReq]

\* One call verify_transaction(transaction) on a freshly loaded transaction
\* row; transaction.agent_instance is loaded from the agent's row.  save_ok
\* says whether transaction.save() succeeds.
VerifyCall(r, tx_id, save_ok) ==
    /\ Free(r)
    /\ tx_id \in DOMAIN transactions
    /\ LET transaction == transactions[tx_id]
           agent == agents[transaction.agent_instance]
           v == verify_transaction(transaction, agent, save_ok)
       IN  /\ req' = [req EXCEPT ![r] =
                  [IdleReq EXCEPT !.op = "verify_transaction", !.pc = "done",
                      !.body = [agent_instance |-> agent.id,
                                amount |-> IF "amount" \in DOMAIN transaction
                                           THEN transaction.amount ELSE 0,
                                merchant |-> transaction.merchant,
                                merchant_wallet |-> transaction.merchant_wallet],
                      !.before = agent, !.agent = agent,
                      !.tx = v.tx,
                      !.needs_rollback = v.raised = "DatabaseError",
                      !.result = v.result]]
           /\ transactions' = IF v.saved
                              THEN [transactions EXCEPT ![tx_id] = v.tx]
                              ELSE transactions
    /\ UNCHANGED agents

\* One call _verify_price_reasonable(transaction) on a freshly loaded
\* transaction row; the slot keeps the returned bool in result.approved.
PriceCall(r, tx_id) ==
    /\ Free(r)
    /\ tx_id \in DOMAIN transactions
    /\ LET transaction == transactions[tx_id]
       IN  req' = [req EXCEPT ![r] =
               [IdleReq EXCEPT !.op = "verify_price_reasonable", !.pc = "done",
                   !.tx = transaction,
                   !.result = [approved |-> verify_price_reasonable(transaction),
                               reason |-> None]]]
    /\ UNCHANGED <<agents, transactions>>

VerifierNext ==
    \/ \E save_ok \in BOOLEAN : VerifyCall(1, 1, save_ok)
    \/ PriceCall(1, 1)
    \/ Return(1)

SpecVerifier == VerifierInit /\ [][VerifierNext]_vars

\* The store holds one agent and one transaction object whose amount is
\* missing (Transaction(...) built without amount: the attribute is None).
MalformedInit ==
    /\ agents \in {<<[Fixture(DefaultTrustScore) EXCEPT !.allowed_merchants = m,
                                                        !.max_budget = b]>> :
                      m \in VerifierAllowed, b \in VerifierBudgets}
    /\ transactions \in
           {<<Without([NewTransaction(Fixture(DefaultTrustScore), 0, merchant,
                                      "0x02", st)
                          EXCEPT !.market_average_price = price], "amount")>> :
               merchant \in VerifierMerchants, price \in VerifierPrices,
               st \in {"PENDING", "VERIFYING"}}
    /\ req = [r \in Req |-> IdleReq]

MalformedNext ==
    \/ \E r \in Req, save_ok \in BOOLEAN : VerifyCall(r, 1, save_ok)
    \/ \E r \in Req : Return(r)

SpecMalformed == MalformedInit /\ [][MalformedNext]_vars

(* ------------------ POST transactions/verify alone --------------------- *)

\* The store holds one agent that has no transaction yet: its trust score
\* is the model default.
VerifyOnlyInit ==
    /\ agents = <<Fixture(DefaultTrustScore)>>
    /\ transactions = <<>>
    /\ req = [r \in Req |-> IdleReq]

\* verify requests only, in every interleaving of their steps
VerifyOnlyNext ==
    \/ \E r \in Req, u \in Users, body \in VerifyBodies :
            VerifyValidate(r, u, body)
    \/ \E r \in Req, save_ok \in BOOLEAN : VerifyCreate(r, save_ok)
    \/ \E r \in Req, save_ok \in BOOLEAN : VerifyTransaction(r, save_ok)
    \/ \E r \in Req, seed \in HashSeeds, save_ok \in BOOLEAN :
            VerifyExecute(r, seed, save_ok)
    \/ \E r \in Req, save_ok \in BOOLEAN : VerifyUpdateScore(r, save_ok)
    \/ \E r \in Req, save_ok \in BOOLEAN : VerifyReject(r, save_ok)
    \/ \E r \in Req, commit_ok \in BOOLEAN : VerifyCommit(r, commit_ok)
    \/ \E r \in Req : Return(r)

SpecVerifyOnly == VerifyOnlyInit /\ [][VerifyOnlyNext]_vars

(* ------------------- POST agents/setup and its parts ------------------- *)

\* the wallet address of the view tests: "0x" and 40 hexadecimal digits
TestWallet == "0x1234567890abcdef1234567890abcdef12345678"

\* bridge_wallet_address of a setup body: absent, well formed, too short,
\* without the prefix, or blank
SetupWallets == {None, Some(TestWallet), Some("0x12"), Some("wallet"), Some("")}

\* value.startswith('0x'), for the strings the model uses
StartsWith0x(value) == value \in {TestWallet, "0x12", "0x01", "0x02"}

\* AgentSetupSerializer.validate_bridge_wallet_address: whether the value
\* passes.  No view uses this serializer.
validate_bridge_wallet_address(value) == StartsWith0x(value) /\ Len(value) = 42

\* the bodies of setup requests, with keys the view does not read
WideSetupBodies ==
    [prompt : BOOLEAN, allowed_merchants : {None, Some(<<"Walmart">>)},
     bridge_wallet_address : SetupWallets,
     status : {None, Some("COMPLETED")}, trust_score : {None, Some(100)}]

\* max_budget values of agents created through the model class
CreatedBudgets == {-100, 0, 1000}

\* The store is empty.
SetupInit ==
    /\ agents = <<>>
    /\ transactions = <<>>
    /\ req = [r \in Req |-> IdleReq]

\* One call process_shopping_prompt(prompt); the slot keeps what the
\* translator did and the constraints the call returned.
PromptCall(r, outcome) ==
    /\ Free(r)
    /\ req' = [req EXCEPT ![r] =
           [IdleReq EXCEPT !.op = "process_shopping_prompt", !.pc = "done",
               !.args = Some([translator |-> outcome.kind,
                              answer |-> outcome.value,
                              constraints |->
                                  Some(process_shopping_prompt(outcome))])]]
    /\ UNCHANGED <<agents, transactions>>

\* agent = AgentInstance.objects.create(**agent_data); agent.full_clean(),
\* as the model tests create an agent.  The row is inserted first; no
\* validator of the model looks at the sign of max_budget, so full_clean
\* raises nothing.
CreateAgent(r, u, max_budget) ==
    /\ Free(r)
    /\ Len(agents) < MaxAgents
    /\ LET agent == [NewAgent(Len(agents) + 1, u,
                         [constraints |-> Answer(DefaultMaxPrice),
                          max_budget |-> max_budget,
                          allowed_merchants |-> DefaultMerchants,
                          bridge_wallet_address |-> Some("")])
                        EXCEPT !.max_budget = max_budget]
       IN  /\ agents' = Append(agents, agent)
           /\ req' = [req EXCEPT ![r] =
                  [IdleReq EXCEPT !.op = "create_agent", !.user = u,
                      !.pc = "done", !.agent = agent,
                      !.args = Some([max_budget |-> max_budget])]]
    /\ UNCHANGED transactions

SetupNext ==
    \/ \E u \in Owners, body \in WideSetupBodies, outcome \in SetupOutcomes,
          save_ok \in BOOLEAN : Setup(1, u, body, outcome, save_ok)
    \/ \E outcome \in SetupOutcomes : PromptCall(1, outcome)
    \/ \E u \in Owners, max_budget \in CreatedBudgets :
            CreateAgent(1, u, max_budget)
    \/ Return(1)

SpecSetup == SetupInit /\ [][SetupNext]_vars

(* ---------------------- MockBridgeWalletService alone ------------------ *)

\* No rows are needed: the wallet service reads and writes none.
WalletInit ==
    /\ agents = <<>>
    /\ transactions = <<>>
    /\ req = [r \in Req |-> IdleReq]

\* One call create_wallet(user) in the server process of slot r
CreateWalletCall(r, seed, user_id) ==
    /\ Free(r)
    /\ req' = [req EXCEPT ![r] =
           [IdleReq EXCEPT !.op = "create_wallet", !.pc = "done",
               !.args = Some([pythonhashseed |-> seed, user_id |-> user_id]),
               !.wallet = Some(create_wallet(user_id))]]
    /\ UNCHANGED <<agents, transactions>>

\* One call execute_transfer(from_wallet, to_wallet, amount) in the server
\* process of slot r, whose hash seed is seed
TransferCall(r, seed, from_wallet, to_wallet, amount) ==
    /\ Free(r)
    /\ req' = [req EXCEPT ![r] =
           [IdleReq EXCEPT !.op = "execute_transfer", !.pc = "done",
               !.args = Some([pythonhashseed |-> seed,
                              from_wallet |-> from_wallet,
                              to_wallet |-> to_wallet, amount |-> amount]),
               !.transfer = Some(execute_transfer(seed, from_wallet,
                                                  to_wallet, amount))]]
    /\ UNCHANGED <<agents, transactions>>

WalletNext ==
    \/ \E r \in Req, seed \in HashSeeds, user_id \in UserIds :
            CreateWalletCall(r, seed, user_id)
    \/ \E r \in Req, seed \in HashSeeds, from_wallet \in Wallets,
          to_wallet \in MerchantWallets, amount \in Amounts :
            TransferCall(r, seed, from_wallet, to_wallet, amount)
    \/ \E r \in Req : Return(r)

SpecWallet == WalletInit /\ [][WalletNext]_vars

(* ------------------------------- claims -------------------------------- *)

\* C1: the persisted trust score of every agent is in [0,100] in every
\* reachable state, whatever score in [0,100] the agent starts with and
\* whatever sequence of update_score calls, with known or unknown event
\* kinds, is applied.
C1_ScoreInRange ==
    \A a \in DOMAIN agents :
        agents[a].trust_score >= 0 /\ agents[a].trust_score <= 100

\* C1 witness: a call whose unclamped sum leaves [0,100] has been applied
\* and saved.
C1_Witness ==
    \E r \in Req :
        /\ req[r].op = "update_score" /\ req[r].pc = "done"
        /\ req[r].response.error = ""
        /\ req[r].event = "SUSPICIOUS_ACTIVITY"
        /\ req[r].before.trust_score = 7
        /\ agents[1].trust_score = 0

\* the delta table and the clamp as the claim C2 states them
C2_Delta(event) ==
    CASE event = "SUCCESSFUL_TRANSACTION" -> 5
      [] event = "FAILED_TRANSACTION" -> -10
      [] event = "PRICE_SAVING" -> 2
      [] event = "SUSPICIOUS_ACTIVITY" -> -15
      [] OTHER -> 0

C2_Clamp(x) == IF x > 100 THEN 100 ELSE IF x < 0 THEN 0 ELSE x

\* C2: a call update_score(agent, event) that returns leaves the persisted
\* score at max(0, min(100, s + delta)), delta being +5, -10, +2, -15 for
\* the four known events; any other event kind returns without an error
\* and leaves the score as it was.
C2_UpdateScoreTable ==
    [][\A r \in Req :
          (req[r].pc = "idle" /\ req'[r].op = "update_score") =>
              /\ req'[r].event \notin DOMAIN score_impacts =>
                    req'[r].response.error = ""
              /\ req'[r].response.error = "" =>
                    /\ agents'[1].trust_score =
                          C2_Clamp(agents[1].trust_score + C2_Delta(req'[r].event))
                    /\ req'[r].agent.trust_score = agents'[1].trust_score]_vars

\* C2 witness: SUCCESSFUL_TRANSACTION at 98 has been applied and the
\* persisted score is 100.
C2_Witness ==
    \E r \in Req :
        /\ req[r].op = "update_score" /\ req[r].pc = "done"
        /\ req[r].response.error = ""
        /\ req[r].event = "SUCCESSFUL_TRANSACTION"
        /\ req[r].before.trust_score = 98
        /\ agents[1].trust_score = 100

\* the handler of slot r takes a step
Steps(r) == req'[r] # req[r]

\* slot r holds a verify request whose agent exists
VerifyOf(r) == req[r].op = "verify" /\ req[r].before.id # 0

\* the request of slot r comes from the owner of its agent
ByOwner(r) == req[r].before.user = req[r].user

\* the body of slot r keeps the budget and names an allowed merchant
WithinPolicy(r) ==
    /\ req[r].body.amount <= req[r].before.max_budget
    /\ \E i \in DOMAIN req[r].before.allowed_merchants :
           req[r].before.allowed_merchants[i] = req[r].body.merchant

\* no database operation of the request in slot r has raised
NoFault(r) == ~req[r].needs_rollback /\ req[r].response.detail # "database error"

\* a committed EXECUTED row for the request of slot r, carrying hash h
ExecutedRow(r, h) ==
    \E i \in DOMAIN transactions :
        /\ transactions[i].status = "EXECUTED"
        /\ transactions[i].transaction_hash = h
        /\ transactions[i].agent_instance = req[r].body.agent_instance
        /\ transactions[i].amount = req[r].body.amount
        /\ transactions[i].merchant = req[r].body.merchant

\* C3: a verify request of the agent's owner, with amount at most
\* max_budget and an allowed merchant, that meets no database fault is
\* answered 200 with status EXECUTED and a transaction hash; the
\* transaction row is committed as EXECUTED with that same hash; and the
\* commit leaves the agent's persisted trust score at the score the request
\* loaded plus 5, clamped at 100.
C3_OwnerVerifyExecutes ==
    /\ [](\A r \in Req :
            (VerifyOf(r) /\ ByOwner(r) /\ WithinPolicy(r) /\ NoFault(r)
                /\ req[r].pc = "done") =>
                /\ req[r].response.code = 200
                /\ req[r].response.status = "EXECUTED"
                /\ req[r].response.transaction_hash # <<>>
                /\ ExecutedRow(r, req[r].response.transaction_hash))
    /\ [][\A r \in Req :
            (VerifyOf(r) /\ req[r].pc = "commit" /\ req'[r].pc = "done"
                /\ req'[r].response.code = 200) =>
                LET a == req[r].body.agent_instance
                    s == req[r].before.trust_score
                IN  agents'[a].trust_score = IF s + 5 > 100 THEN 100 ELSE s + 5]_vars

\* C3 witness: the owner's request has been answered 200 EXECUTED, its row
\* is committed with the hash, and the score went from 50 to 55.
C3_Witness ==
    \E r \in Req :
        /\ VerifyOf(r) /\ ByOwner(r) /\ WithinPolicy(r) /\ req[r].pc = "done"
        /\ req[r].response.code = 200
        /\ ExecutedRow(r, req[r].response.transaction_hash)
        /\ req[r].before.trust_score = 50
        /\ agents[req[r].body.agent_instance].trust_score = 55

\* the rows a reader can be handed: the committed ones, and the ones
\* written inside the open atomic blocks
WrittenRows ==
    {transactions[i] : i \in DOMAIN transactions}
        \cup UNION {{req[r].rows[i] : i \in DOMAIN req[r].rows} : r \in Req}

\* C4: every committed transaction row with status EXECUTED has a non-empty
\* transaction_hash and every committed row with another status has an
\* empty one; the same holds of the rows written inside an atomic block
\* that is still open.
C4_ExecutedIffHash ==
    \A t \in WrittenRows : (t.status = "EXECUTED") <=> (t.transaction_hash # <<>>)

\* C4 witness: an EXECUTED row with its hash is committed while another
\* request holds an APPROVED row without a hash in its open block.
C4_Witness ==
    /\ \E i \in DOMAIN transactions :
           /\ transactions[i].status = "EXECUTED"
           /\ transactions[i].transaction_hash # <<>>
    /\ \E r \in Req :
           /\ req[r].pc = "execute"
           /\ req[r].rows # <<>>
           /\ req[r].rows[1].status = "APPROVED"
           /\ req[r].rows[1].transaction_hash = <<>>

\* slot r holds a verify request inside its atomic block
InBlock(r) ==
    req[r].op = "verify"
        /\ req[r].pc \in {"create", "verify", "execute", "score", "reject", "commit"}

\* C5: verifyAndExecute is all-or-nothing.  No step inside the atomic block
\* changes the committed rows except the commit; a request that met a fault
\* after its row was created ends with 500; a step that ends with 500
\* commits nothing; and the commit of an approved request appends the
\* EXECUTED row with its hash and writes the new trust score in that one
\* step.
C5_AllOrNothing ==
    /\ [](\A r \in Req :
            (req[r].op = "verify" /\ req[r].pc = "done"
                /\ req[r].needs_rollback) => req[r].response.code = 500)
    /\ [][\A r \in Req :
            (InBlock(r) /\ Steps(r)) =>
                \/ UNCHANGED <<agents, transactions>>
                \/ /\ req[r].pc = "commit"
                   /\ req'[r].response.code = 200
                   /\ transactions' = Append(transactions, req[r].tx)
                   /\ req[r].tx.status = "EXECUTED"
                   /\ req[r].tx.transaction_hash = req'[r].response.transaction_hash
                   /\ req[r].tx.transaction_hash # <<>>
                   /\ agents'[req[r].agent.id].trust_score =
                          req[r].agent.trust_score]_vars

\* C5 witness: a request whose trust-score save raised, after its row was
\* written as EXECUTED with a hash, has ended with 500 and nothing of it is
\* committed.
C5_Witness ==
    \E r \in Req :
        /\ req[r].op = "verify" /\ req[r].pc = "done"
        /\ req[r].response.code = 500
        /\ req[r].tx.status = "EXECUTED"
        /\ req[r].transfer # None
        /\ req[r].agent.trust_score = 55
        /\ transactions = <<>>
        /\ agents[1].trust_score = 50

\* verify_transaction has answered approved False for the request of slot r
Rejected(r) ==
    /\ req[r].op = "verify"
    /\ req[r].pc \in {"reject", "commit", "done"}
    /\ ~req[r].result.approved
    /\ req[r].result.reason # None

\* C6: when verification rejects a transaction, execute_transfer is not
\* called and the agent's trust score and status stay as they were, in the
\* agent object and in the agent's row; the request changes nothing but the
\* transaction, whose status becomes REJECTED.
C6_RejectionFrame ==
    /\ [](\A r \in Req :
            Rejected(r) =>
                /\ req[r].transfer = None
                /\ req[r].agent_write = <<>>
                /\ req[r].agent = req[r].before
                /\ req[r].pc # "reject" => req[r].tx.status = "REJECTED")
    /\ [][\A r \in Req :
            (Steps(r) /\ req'[r].op = "verify" /\ Rejected(r)') =>
                /\ agents' = agents
                /\ \/ transactions' = transactions
                   \/ /\ transactions' = Append(transactions, req[r].tx)
                      /\ req[r].tx.status = "REJECTED"]_vars

\* C6 witness: a request whose verification answered approved False has
\* ended; its transaction object is REJECTED, no transfer was made and the
\* agent's row still has the score and status the request loaded.
C6_Witness ==
    \E r \in Req :
        /\ Rejected(r) /\ req[r].pc = "done"
        /\ req[r].tx.status = "REJECTED"
        /\ req[r].transfer = None
        /\ agents[req[r].before.id] = req[r].before

\* C7 (as claimed): a verify request of the owner that breaks the budget or
\* names a merchant outside allowed_merchants is answered 400 with status
\* REJECTED and a reason naming the failed checks, and a transaction row
\* with status REJECTED is committed; it is never answered with a 5xx.
C7_PolicyViolationIsRejection ==
    \A r \in Req :
        (VerifyOf(r) /\ ByOwner(r) /\ ~WithinPolicy(r) /\ req[r].pc = "done") =>
            /\ req[r].response.code = 400
            /\ req[r].response.status = "REJECTED"
            /\ req[r].response.reason # None
            /\ \E i \in DOMAIN transactions :
                   /\ transactions[i].status = "REJECTED"
                   /\ transactions[i].merchant = req[r].body.merchant
                   /\ transactions[i].amount = req[r].body.amount

\* C8 (as claimed): a verify request whose requester does not own the
\* agent is answered with HTTP 400.
C8_NotOwnerIs400 ==
    \A r \in Req :
        (VerifyOf(r) /\ ~ByOwner(r) /\ req[r].pc = "done") =>
            req[r].response.code = 400

\* C9: a verify request of a user who does not own the agent has no
\* effect: its handler ends in its first step, which changes no row; it
\* creates no transaction, makes no transfer and writes no agent.
C9_NotOwnerNoEffect ==
    /\ [](\A r \in Req :
            (VerifyOf(r) /\ ~ByOwner(r)) =>
                /\ req[r].pc = "done"
                /\ req[r].tx = NoTransaction
                /\ req[r].rows = <<>>
                /\ req[r].transfer = None
                /\ req[r].agent_write = <<>>
                /\ req[r].agent = req[r].before)
    /\ [][\A r \in Req :
            (Steps(r) /\ req'[r].op = "verify" /\ req'[r].before.id # 0
                /\ req'[r].before.user # req'[r].user) =>
                UNCHANGED <<agents, transactions>>]_vars

\* C9 witness: bob's request on alice's agent, within budget and with an
\* allowed merchant, has ended without a transaction or a transfer.
C9_Witness ==
    \E r \in Req :
        /\ VerifyOf(r) /\ ~ByOwner(r) /\ WithinPolicy(r) /\ req[r].pc = "done"
        /\ req[r].user = "bob"
        /\ req[r].response.code >= 400
        /\ req[r].tx = NoTransaction

\* C10: every committed transaction row with status EXECUTED has an amount
\* of at most its agent's max_budget and a merchant that is a member of its
\* agent's allowed_merchants.
C10_ExecutedWithinPolicy ==
    \A i \in DOMAIN transactions :
        transactions[i].status = "EXECUTED" =>
            LET agent == agents[transactions[i].agent_instance]
            IN  /\ transactions[i].amount <= agent.max_budget
                /\ \E k \in DOMAIN agent.allowed_merchants :
                       agent.allowed_merchants[k] = transactions[i].merchant

\* C10 witness: an EXECUTED row whose amount equals its agent's max_budget
\* is committed, after a shop request has changed the agent's status.
C10_Witness ==
    \E i \in DOMAIN transactions :
        /\ transactions[i].status = "EXECUTED"
        /\ transactions[i].amount = agents[transactions[i].agent_instance].max_budget
        /\ agents[transactions[i].agent_instance].status = "SHOPPING"

\* slot r holds a shop request
ShopOf(r) == req[r].op = "shop"

\* the step takes a shop request into the free slot r, for an agent that
\* the requester owns
ShopArrives(r) ==
    /\ req[r].pc = "idle" /\ req'[r].op = "shop"
    /\ req'[r].body.agent_instance \in DOMAIN agents
    /\ agents[req'[r].body.agent_instance].user = req'[r].user

\* C11: a shop request of the owner on an agent whose persisted status is
\* not IDLE ends in its first step with HTTP 400, and that step changes no
\* agent row and no transaction row; the agent object the handler holds is
\* the row as it was loaded, status and trust score included.
C11_NonIdleShopRejected ==
    [][\A r \in Req :
        (ShopArrives(r)
            /\ agents[req'[r].body.agent_instance].status # "IDLE") =>
            /\ req'[r].pc = "done"
            /\ req'[r].response.code = 400
            /\ req'[r].response.task_id = None
            /\ req'[r].agent = agents[req'[r].body.agent_instance]
            /\ UNCHANGED <<agents, transactions>>]_vars

\* C11 witness: a shop request on an agent already SHOPPING has been
\* answered 400, and the agent's row still has the status and the trust
\* score the request loaded.
C11_Witness ==
    \E r \in Req :
        /\ ShopOf(r) /\ req[r].pc = "done"
        /\ req[r].response.code = 400
        /\ req[r].before.status = "SHOPPING"
        /\ agents[req[r].before.id].status = "SHOPPING"
        /\ agents[req[r].before.id].trust_score = req[r].before.trust_score

\* slot r holds a shop request that has passed the IDLE test and has not
\* been answered yet
ShopPastTest(r) == ShopOf(r) /\ req[r].pc \in {"start", "error"}

\* the agent the request of slot r is about
AgentOf(r) == req[r].body.agent_instance

\* C12 (as claimed): of the shop requests in flight against one agent, at
\* most one has observed IDLE and passed the status test: two requests are
\* never both between the test and their answer.
C12_OneShopObservesIdle ==
    \A r1, r2 \in Req :
        (r1 # r2 /\ AgentOf(r1) = AgentOf(r2)) =>
            ~(ShopPastTest(r1) /\ ShopPastTest(r2))

\* C13 (as claimed): for one agent, a shop request and a verify request, or
\* two verify requests, are never both past their precondition check (the
\* status test of the shop handler, the validation and ownership test of
\* the verify handler) at the same time.
C13_ShopVerifyExclusive ==
    \A r1, r2 \in Req :
        (r1 # r2 /\ AgentOf(r1) = AgentOf(r2)) =>
            /\ ~(ShopPastTest(r1) /\ InBlock(r2))
            /\ ~(InBlock(r1) /\ InBlock(r2))

\* C14 (as claimed): while a verify request is inside its atomic block the
\* agent object it works on has status VERIFYING, and when the request has
\* been answered 200 EXECUTED the agent's row has status COMPLETED.
C14_VerifyDrivesAgentStatus ==
    \A r \in Req :
        /\ (VerifyOf(r) /\ req[r].pc \in {"verify", "execute", "score"}) =>
               req[r].agent.status = "VERIFYING"
        /\ (VerifyOf(r) /\ req[r].pc = "done" /\ req[r].response.code = 200) =>
               agents[AgentOf(r)].status = "COMPLETED"

\* C15: a shop request of the owner on an agent whose persisted status is
\* IDLE passes the status test; when neither the save nor the task id
\* raises, the step that saves writes SHOPPING to the agent's row and ends
\* the handler with 202, the task id task_<agent>_<user> and status
\* SHOPPING; and only a request that loaded its own agent as IDLE is
\* answered 202.
C15_OwnerShopStarts ==
    /\ [](\A r \in Req :
            (ShopOf(r) /\ req[r].response.code = 202) =>
                /\ req[r].pc = "done"
                /\ req[r].before.status = "IDLE"
                /\ req[r].before.user = req[r].user)
    /\ [][\A r \in Req :
            (ShopArrives(r)
                /\ agents[req'[r].body.agent_instance].status = "IDLE") =>
                req'[r].pc = "start"]_vars
    /\ [][\A r \in Req :
            (ShopOf(r) /\ req[r].pc = "start" /\ Steps(r)
                /\ req'[r].pc # "error") =>
                /\ req'[r].pc = "done"
                /\ req'[r].response.code = 202
                /\ req'[r].response.status = "SHOPPING"
                /\ req'[r].response.task_id =
                       Some(<<"task", AgentOf(r), req[r].user>>)
                /\ agents'[AgentOf(r)].status = "SHOPPING"]_vars

\* C15 witness: alice's shop request on her IDLE agent has been answered
\* 202 with the task id, and the agent's row has status SHOPPING.
C15_Witness ==
    \E r \in Req :
        /\ ShopOf(r) /\ req[r].pc = "done" /\ req[r].user = "alice"
        /\ req[r].before.status = "IDLE"
        /\ req[r].response.code = 202
        /\ req[r].response.task_id = Some(<<"task", 1, "alice">>)
        /\ agents[1].status = "SHOPPING"

\* the step ends the except branch of start_shopping_task in slot r
ShopFails(r) == ShopOf(r) /\ req[r].pc = "error" /\ Steps(r)

\* C16 (as claimed): when starting a task has failed, the handler ends
\* with the agent's persisted status ERROR, the answer 500 and no task id.
C16_FailedStartEndsError ==
    [][\A r \in Req :
        ShopFails(r) =>
            /\ agents'[AgentOf(r)].status = "ERROR"
            /\ req'[r].response.code = 500
            /\ req'[r].response.task_id = None]_vars

\* C16 (amended): when starting a task has failed, no answer has gone out
\* yet; the handler then sets the status of its agent object to ERROR and
\* saves the object whole: the agent's row becomes that object when the
\* save succeeds and stays as it is when this save raises too.  Either way
\* the handler ends with 500 and no task id, never with 202.
C16_FailedStartAnswers500 ==
    /\ [](\A r \in Req :
            (ShopOf(r) /\ req[r].pc = "error") => req[r].response = NoResponse)
    /\ [][\A r \in Req :
            ShopFails(r) =>
                /\ req'[r].pc = "done"
                /\ req'[r].agent.status = "ERROR"
                /\ req'[r].response.code = 500
                /\ req'[r].response.task_id = None
                /\ \/ agents' = agents
                   \/ agents' = [agents EXCEPT ![AgentOf(r)] = req'[r].agent]]_vars

\* C16 witness: a shop request whose start failed has been answered 500
\* and the agent's row has status ERROR.
C16_Witness ==
    \E r \in Req :
        /\ ShopOf(r) /\ req[r].pc = "done"
        /\ req[r].before.status = "IDLE"
        /\ req[r].agent.status = "ERROR"
        /\ req[r].response.code = 500
        /\ agents[AgentOf(r)].status = "ERROR"

\* C17 (as claimed): once an agent's persisted status is ERROR or
\* COMPLETED, no step of a shop or verify request changes it.
C17_ErrorCompletedTerminal ==
    [][\A a \in DOMAIN agents :
        agents[a].status \in {"ERROR", "COMPLETED"} =>
            agents'[a].status = agents[a].status]_vars

\* verify_transaction has returned to the caller of slot r
VerifierDone(r) == req[r].op = "verify_transaction" /\ req[r].pc = "done"

\* the three checks, on the transaction and the agent the call was given
BudgetPasses(r) == req[r].tx.amount <= req[r].agent.max_budget
MerchantPasses(r) ==
    \E i \in DOMAIN req[r].agent.allowed_merchants :
        req[r].agent.allowed_merchants[i] = req[r].tx.merchant
PricePasses(r) == verify_price_reasonable(req[r].tx)

\* the names of the checks that the transaction of slot r fails
FailedNames(r) ==
    {k \in {"budget_check", "merchant_check", "price_check"} :
        \/ k = "budget_check" /\ ~BudgetPasses(r)
        \/ k = "merchant_check" /\ ~MerchantPasses(r)
        \/ k = "price_check" /\ ~PricePasses(r)}

\* the names of checks that the returned reason carries
ReasonNames(r) ==
    LET reason == req[r].result.reason
    IN  IF Len(reason) < 2 THEN {}
        ELSE {reason[2][i] : i \in DOMAIN reason[2]}

\* C18 (as claimed): verify_transaction returns approved true exactly when
\* the budget, merchant and price checks all pass; on approval the reason
\* is empty; on rejection the reason names exactly the checks that failed.
C18_ApprovedIffAllChecks ==
    \A r \in Req :
        VerifierDone(r) =>
            /\ req[r].result.approved <=>
                   (BudgetPasses(r) /\ MerchantPasses(r) /\ PricePasses(r))
            /\ req[r].result.approved => req[r].result.reason = None
            /\ ~req[r].result.approved =>
                   /\ req[r].result.reason # None
                   /\ ReasonNames(r) = FailedNames(r)

\* C19 (as claimed): for a transaction whose amount exceeds the agent's
\* max_budget verify_transaction returns approved false with a reason that
\* names budget_check; for an amount equal to max_budget the reason does
\* not name budget_check.
C19_OverBudgetRejected ==
    \A r \in Req :
        VerifierDone(r) =>
            /\ req[r].tx.amount > req[r].agent.max_budget =>
                   /\ ~req[r].result.approved
                   /\ "budget_check" \in ReasonNames(r)
            /\ req[r].tx.amount = req[r].agent.max_budget =>
                   "budget_check" \notin ReasonNames(r)

\* C20 (as claimed): for a transaction whose merchant is not, character
\* for character, an element of the agent's allowed_merchants,
\* verify_transaction returns approved false with a reason that names
\* merchant_check.
C20_UnknownMerchantRejected ==
    \A r \in Req :
        (VerifierDone(r) /\ ~MerchantPasses(r)) =>
            /\ ~req[r].result.approved
            /\ "merchant_check" \in ReasonNames(r)

\* _verify_price_reasonable has returned to the caller of slot r
PriceDone(r) == req[r].op = "verify_price_reasonable" /\ req[r].pc = "done"

TestedCase(r) ==
    /\ req[r].tx.amount = 150 /\ req[r].tx.merchant = "Amazon"
    /\ req[r].tx.market_average_price = <<180>>
    /\ req[r].agent.max_budget = 1000
    /\ MerchantPasses(r)

WalletDone(r) == req[r].op = "create_wallet" /\ req[r].pc = "done"

\* the number that a sequence of hexadecimal digits writes
RECURSIVE HexValue(_)
HexValue(digits) ==
    IF digits = <<>> THEN 0
    ELSE 16 * HexValue(SubSeq(digits, 1, Len(digits) - 1)) + digits[Len(digits)]

\* C23: create_wallet returns "0x" followed by 40 hexadecimal digits that
\* write the user id, 42 characters in all; two calls for the same user id,
\* in whichever server processes, return the same address.
C23_WalletFormat ==
    /\ \A r \in Req :
           WalletDone(r) =>
               LET address == req[r].wallet[1]
               IN  /\ address[1] = "0x"
                   /\ Len(address[2]) = 40
                   /\ Len(address[1]) + Len(address[2]) = 42
                   /\ \A i \in DOMAIN address[2] : address[2][i] \in 0..15
                   /\ HexValue(address[2]) = req[r].args[1].user_id
    /\ \A r1, r2 \in Req :
           (WalletDone(r1) /\ WalletDone(r2)
               /\ req[r1].args[1].user_id = req[r2].args[1].user_id) =>
               req[r1].wallet = req[r2].wallet

\* C23 witness: two server processes with different hash seeds have each
\* created the wallet of user 4096, whose id takes four digits.
C23_Witness ==
    \E r1, r2 \in Req :
        /\ WalletDone(r1) /\ WalletDone(r2)
        /\ req[r1].args[1].user_id = 4096 /\ req[r2].args[1].user_id = 4096
        /\ req[r1].args[1].pythonhashseed # req[r2].args[1].pythonhashseed
        /\ req[r1].wallet = req[r2].wallet

\* execute_transfer has returned to the caller of slot r
TransferDone(r) == req[r].op = "execute_transfer" /\ req[r].pc = "done"

\* C24 (as claimed): any two calls of execute_transfer with the same
\* from_wallet, to_wallet and amount, in whichever server processes, return
\* the same hash, and every hash is "0x" followed by hexadecimal digits
\* without a sign.
C24_TransferDeterministic ==
    /\ \A r \in Req :
           TransferDone(r) =>
               /\ req[r].transfer[1][1] = "0x"
               /\ req[r].transfer[1][2] = ""
    /\ \A r1, r2 \in Req :
           (TransferDone(r1) /\ TransferDone(r2)
               /\ req[r1].args[1].from_wallet = req[r2].args[1].from_wallet
               /\ req[r1].args[1].to_wallet = req[r2].args[1].to_wallet
               /\ req[r1].args[1].amount = req[r2].args[1].amount) =>
               req[r1].transfer = req[r2].transfer

\* process_shopping_prompt has returned to the caller of slot r
PromptDone(r) == req[r].op = "process_shopping_prompt" /\ req[r].pc = "done"

\* the keys a constraints object has to carry
RequiredKeys == {"max_price", "categories", "preferences"}

\* C25 (as claimed): process_shopping_prompt returns; and when the
\* translator call raised, its content was not JSON, or its JSON object
\* lacks max_price, categories or preferences, the call returns exactly the
\* fixed default constraints.
C25_FailureGivesDefault ==
    \A r \in Req :
        PromptDone(r) =>
            /\ req[r].args[1].constraints # None
            /\ (\/ req[r].args[1].translator \in {"raise", "malformed"}
                \/ ~(RequiredKeys \subseteq DOMAIN req[r].args[1].answer)) =>
                   req[r].args[1].constraints[1] =
                       [max_price |-> 500, categories |-> <<"general">>,
                        preferences |-> [brand |-> "any", condition |-> "new",
                                         shipping |-> "standard"],
                        _source |-> "default"]

\* the handler of a setup request has answered in slot r
SetupDone(r) == req[r].op = "setup" /\ req[r].pc = "done"

\* the setup request of slot r has been answered 201 and its agent row
\* inserted
Created(r) == SetupDone(r) /\ req[r].response.code = 201

\* C26: a setup request with a prompt whose translator call failed (it
\* raised, or its content was not JSON) is answered 201 with an agent whose
\* constraints are the fixed default object tagged _source default and
\* whose max_budget is 500, unless the body gives no wallet address or the
\* insert raises; it is answered 201 or 400, and a 400 names the wallet
\* address or the database, never the translator.
C26_TranslatorFailureGives201 ==
    \A r \in Req :
        (SetupDone(r) /\ req[r].args[1].body.prompt
            /\ req[r].args[1].translator \in {"raise", "malformed"}) =>
            /\ req[r].response.code \in {201, 400}
            /\ req[r].response.code = 400 =>
                   \/ /\ req[r].response.errors = <<"bridge_wallet_address">>
                      /\ req[r].args[1].body.bridge_wallet_address = None
                   \/ req[r].response.detail = "database error"
            /\ (req[r].args[1].body.bridge_wallet_address # None
                    /\ req[r].response.detail # "database error") =>
                   /\ req[r].response.code = 201
                   /\ req[r].agent.constraints = default_constraints
                   /\ req[r].agent.constraints._source = "default"
                   /\ req[r].agent.max_budget = 500
                   /\ agents[req[r].agent.id] = req[r].agent

\* C26 witness: a setup request whose translator returned no JSON has been
\* answered 201 and its agent's row has the default constraints and the
\* budget 500.
C26_Witness ==
    \E r \in Req :
        /\ Created(r)
        /\ req[r].args[1].translator = "malformed"
        /\ agents[req[r].agent.id].constraints._source = "default"
        /\ agents[req[r].agent.id].max_budget = 500

\* C27: every agent created by a setup request has max_budget equal to the
\* max_price of the constraints process_shopping_prompt returned for the
\* request, and its row stores exactly those constraints; when the
\* translator answered, they are the translator's answer.
C27_BudgetIsMaxPrice ==
    \A r \in Req :
        Created(r) =>
            LET constraints == req[r].args[1].constraints[1]
            IN  /\ req[r].args[1].body.prompt
                /\ agents[req[r].agent.id].max_budget = constraints.max_price
                /\ agents[req[r].agent.id].constraints = constraints
                /\ req[r].args[1].translator = "json" =>
                       /\ constraints \in {Answer(p) : p \in SetupPrices}
                       /\ constraints.max_price > 0

\* C27 witness: an agent has been created from the translator's answer
\* with max_price 1000, and its budget is 1000.
C27_Witness ==
    \E r \in Req :
        /\ Created(r)
        /\ req[r].args[1].translator = "json"
        /\ req[r].args[1].constraints[1].max_price = 1000
        /\ agents[req[r].agent.id].max_budget = 1000

\* C28: every agent created by a setup request starts with status IDLE and
\* trust score 50, in its row and in the answer, whatever status and
\* trust_score the body carries.
C28_CreatedIdleFifty ==
    \A r \in Req :
        Created(r) =>
            /\ agents[req[r].agent.id].status = "IDLE"
            /\ agents[req[r].agent.id].trust_score = 50
            /\ req[r].response.status = "IDLE"

\* C28 witness: a setup request whose body carries status COMPLETED and
\* trust_score 100 has created an agent that is IDLE with score 50.
C28_Witness ==
    \E r \in Req :
        /\ Created(r)
        /\ req[r].args[1].body.status = Some("COMPLETED")
        /\ req[r].args[1].body.trust_score = Some(100)
        /\ agents[req[r].agent.id].status = "IDLE"
        /\ agents[req[r].agent.id].trust_score = 50

\* C29 (as claimed): no agent row has a max_budget of 0 or less; creating
\* an agent with such a budget through the model class raises a
\* ValidationError, and a setup request whose translated max_price is 0 or
\* less is answered 4xx.
C29_NoNonPositiveBudget ==
    /\ \A a \in DOMAIN agents : agents[a].max_budget > 0
    /\ \A r \in Req :
           (req[r].op = "create_agent" /\ req[r].pc = "done"
               /\ req[r].args[1].max_budget <= 0) =>
               req[r].response.error = "ValidationError"
    /\ \A r \in Req :
           (SetupDone(r) /\ req[r].args[1].constraints # None
               /\ "max_price" \in DOMAIN req[r].args[1].constraints[1]
               /\ req[r].args[1].constraints[1].max_price <= 0) =>
               req[r].response.code = 400

\* C30 (as claimed): a setup request whose bridge wallet address is not
\* "0x" followed by 40 hexadecimal characters is answered 4xx and creates
\* no agent, and every agent row has a wallet address of that format.  The
\* format is tested as validate_bridge_wallet_address tests it: the prefix
\* and the length of 42.
C30_WalletFormatEnforced ==
    /\ \A r \in Req :
           (SetupDone(r)
               /\ \/ req[r].args[1].body.bridge_wallet_address = None
                  \/ ~validate_bridge_wallet_address(req[r].args[1].body.bridge_wallet_address[1])) =>
               /\ req[r].response.code = 400
               /\ req[r].agent = NoAgent
    /\ \A a \in DOMAIN agents : validate_bridge_wallet_address(agents[a].bridge_wallet_address)

\* the text names the prompt ('prompt' in text)
NamesPrompt(text) == text \in {"Shopping prompt is required"}

\* C31 (as claimed): a setup request without a prompt is answered 400 with
\* an error that names the missing prompt (the error field of the answer,
\* as test_agent_setup_no_prompt reads it); the translator is not called
\* and no agent is created.
C31_NoPromptRejected ==
    \A r \in Req :
        (SetupDone(r) /\ ~req[r].args[1].body.prompt) =>
            /\ req[r].response.code = 400
            /\ NamesPrompt(req[r].response.error)
            /\ req[r].args[1].translator = ""
            /\ req[r].args[1].constraints = None
            /\ req[r].agent = NoAgent

\* the place of a transaction status in the order PENDING, VERIFYING,
\* APPROVED or REJECTED, EXECUTED; 0 for an object not yet built
StatusRank(st) ==
    CASE st = "" -> 0
      [] st = "PENDING" -> 1
      [] st = "VERIFYING" -> 2
      [] st \in {"APPROVED", "REJECTED"} -> 3
      [] st = "EXECUTED" -> 4

\* a status may follow another: never an earlier one, nothing after
\* REJECTED or EXECUTED, and EXECUTED after APPROVED only
Advances(a, b) ==
    /\ StatusRank(b) >= StatusRank(a)
    /\ a \in {"REJECTED", "EXECUTED"} => b = a
    /\ (b = "EXECUTED" /\ a # "EXECUTED") => a = "APPROVED"

\* C32: in every step of a verify request, the status of its transaction
\* object and of the row it has written inside its atomic block stays or
\* advances along PENDING, VERIFYING, then APPROVED or REJECTED, then
\* EXECUTED: it never moves to an earlier status, REJECTED and EXECUTED are
\* final, and EXECUTED follows APPROVED only; a committed row keeps its
\* status.
C32_StatusAdvances ==
    [][/\ \A r \in Req :
              (req[r].op = "verify" /\ req'[r].op = "verify") =>
                  /\ Advances(req[r].tx.status, req'[r].tx.status)
                  /\ (req[r].rows # <<>> /\ req'[r].rows # <<>>) =>
                         Advances(req[r].rows[1].status, req'[r].rows[1].status)
       /\ \A i \in DOMAIN transactions :
              /\ i \in DOMAIN transactions'
              /\ transactions'[i].status = transactions[i].status]_vars

\* C32 witness: a verify request has brought its transaction to EXECUTED
\* and the row is committed.
C32_Witness ==
    \E r \in Req :
        /\ req[r].op = "verify" /\ req[r].pc = "done"
        /\ req[r].tx.status = "EXECUTED"
        /\ \E i \in DOMAIN transactions : transactions[i] = req[r].tx

\* C33 (as claimed): a committed transaction row has status EXECUTED
\* exactly when its executed_at is not null.
C33_ExecutedHasTimestamp ==
    \A i \in DOMAIN transactions :
        transactions[i].status = "EXECUTED" <=>
            transactions[i].executed_at # None

\* the transaction given to verify_transaction in slot r has no amount
Malformed(r) == "amount" \notin DOMAIN req[r].tx

\* C34 (as claimed): verify_transaction on a transaction whose amount is
\* missing reports an error to its caller; it does not return a result with
\* approved false.
C34_MalformedReported ==
    \A r \in Req :
        (VerifierDone(r) /\ Malformed(r)) =>
            /\ req[r].response.error # ""
            /\ req[r].result = NoResult

\* C35 (as claimed): a call of verify_transaction leaves the transaction
\* object as its row was before the call, and writes neither the
\* transaction rows nor the agent rows.
C35_VerifyIsPure ==
    [][\A r \in Req :
           (req'[r].op = "verify_transaction" /\ req[r].op # "verify_transaction") =>
               /\ req'[r].tx = transactions[1]
               /\ transactions' = transactions
               /\ agents' = agents]_vars

\* the committed transaction rows with status EXECUTED
ExecutedRows == {i \in DOMAIN transactions : transactions[i].status = "EXECUTED"}

\* no request is between its first and its last step
Quiet == \A r \in Req : req[r].pc \in {"idle", "done"}

\* C36 (as claimed): when the verify requests on the agent have all
\* returned, the agent's persisted trust score is min(100, s0 + 5k), for k
\* the number of requests that returned EXECUTED (each has committed its
\* row) and s0 = 50 the score before the first of them.
C36_EachExecutionCounted ==
    Quiet =>
        agents[1].trust_score =
            Min(100, DefaultTrustScore + 5 * Cardinality(ExecutedRows))

\* C37 (as claimed): no step of a shop or verify request lowers the
\* persisted trust score of an agent.
C37_ScoreNeverDecreases ==
    [][\A a \in DOMAIN agents :
           agents'[a].trust_score >= agents[a].trust_score]_vars

\* C38 (as claimed): a step of a task-start request changes nothing of an
\* agent's row but its status; a trust score committed since the request
\* read the agent is still there after the step.
C38_ShopWritesStatusOnly ==
    [][\A r \in Req :
           (ShopOf(r) /\ Steps(r)) =>
               \A a \in DOMAIN agents :
                   agents'[a] = [agents[a] EXCEPT !.status = agents'[a].status]]_vars

\* C39 (as claimed): a step of a verify request changes nothing of an
\* agent's row but its trust score; the status SHOPPING committed since the
\* request read the agent is not set back, so no step takes an agent from
\* SHOPPING to IDLE.
C39_VerifyWritesScoreOnly ==
    [][/\ \A r \in Req :
              (req[r].op = "verify" /\ Steps(r)) =>
                  \A a \in DOMAIN agents :
                      agents'[a] =
                          [agents[a] EXCEPT !.trust_score = agents'[a].trust_score]
       /\ \A a \in DOMAIN agents :
              agents[a].status = "SHOPPING" => agents'[a].status # "IDLE"]_vars

\* C40: every transaction row that POST /transactions/verify has committed
\* has status EXECUTED and no market_average_price; no committed row has
\* status REJECTED, VERIFYING, APPROVED or PENDING.
C40_CommittedRowsExecuted ==
    \A i \in DOMAIN transactions :
        /\ transactions[i].status = "EXECUTED"
        /\ transactions[i].market_average_price = None

\* C40 witness: two verify requests have committed their rows, and a
\* verify request whose verification was answered with approved false has
\* ended without a row.
C40_Witness ==
    /\ Len(transactions) = MaxTx
    /\ \E r \in Req :
           /\ req[r].op = "verify" /\ req[r].pc = "done"
           /\ req[r].tx.status = "REJECTED"
           /\ req[r].response.code = 500

====
